---- MODULE Spec2Model ----
(***************************************************************************)
(* EngineCommandParser of usi-rs (src/protocol/parser.rs): the decoder of  *)
(* one line of engine output into an EngineCommand.  The parser is a       *)
(* cursor (iter) over the whitespace-separated tokens of the line; the     *)
(* model keeps the token sequence and the cursor position, and takes one   *)
(* step per sub-parser call or per iteration of a sub-parser's loop.       *)
(***************************************************************************)
EXTENDS Integers, Sequences, FiniteSets, TLC

VARIABLES
    tokens,     \* cmd.split_whitespace(): the tokens of the line
    pos,        \* iter: index of the token the next iter.next() returns
    pc,         \* the function (or loop) the parser is in
    result,     \* the value parse() returns, Pending until it returns
    entries,    \* parse_info: the entries vector
    opt_name,   \* parse_option: the option's name
    default,    \* parse_option spin / combo: the local `default`
    min,        \* parse_option spin: the local `min`
    max,        \* parse_option spin: the local `max`
    vars_       \* parse_option combo: the local `vars`

vars == <<tokens, pos, pc, result, entries, opt_name, default, min, max, vars_>>

(***************************************************************************)
(* Bounds of the model: the number of tokens that follow the part of the   *)
(* line each specification fixes.                                          *)
(***************************************************************************)
MaxCmdLen == 4
MaxInfoLen == 4
MaxScoreLen == 4
MaxSpinLen == 5
MaxOptLen == 4

(***************************************************************************)
(* Option<T>, Result<EngineCommand, Error>.                                *)
(***************************************************************************)
None == <<>>
Some(v) == <<v>>
IsSome(o) == Len(o) = 1
Unwrap(o) == o[1]

Pending == [tag |-> "Pending"]
Err(e) == [tag |-> "Err", err |-> e]
Ok(c) == [tag |-> "Ok", cmd |-> c]
IllegalSyntax == "IllegalSyntax"

\* iter.next() at cursor p: the token there, None once the tokens are exhausted
\* (SplitWhitespace is fused: it keeps returning None).
Next_(toks, p) == IF p <= Len(toks) THEN Some(toks[p]) ELSE None
\* what is left of the iterator at cursor p
Rest(toks, p) == SubSeq(toks, p, Len(toks))

\* Itertools::join(" ")
RECURSIVE Join(_)
Join(s) ==
    IF Len(s) = 0 THEN ""
    ELSE IF Len(s) = 1 THEN s[1]
    ELSE s[1] \o " " \o Join(Tail(s))

(***************************************************************************)
(* str::parse::<i32>(), str::parse::<u64>(), str::parse::<bool>().         *)
(* Chars gives the bytes of each token the model uses.                     *)
(***************************************************************************)
Chars(t) ==
    CASE t = "34" -> <<"3", "4">>
      [] t = "12" -> <<"1", "2">>
      [] t = "256" -> <<"2", "5", "6">>
      [] t = "1" -> <<"1">>
      [] t = "007" -> <<"0", "0", "7">>
      [] t = "-5" -> <<"-", "5">>
      [] t = "+7" -> <<"+", "7">>
      [] t = "+" -> <<"+">>
      [] t = "-" -> <<"-">>
      [] t = "2147483647" -> <<"2", "1", "4", "7", "4", "8", "3", "6", "4", "7">>
      [] t = "2147483648" -> <<"2", "1", "4", "7", "4", "8", "3", "6", "4", "8">>
      [] t = "-2147483648" -> <<"-", "2", "1", "4", "7", "4", "8", "3", "6", "4", "8">>
      [] t = "1x" -> <<"1", "x">>
      [] t = "7g7f" -> <<"7", "g", "7", "f">>
      [] t = "8c8d" -> <<"8", "c", "8", "d">>
      [] t = "<empty>" -> <<"<", "e", "m", "p", "t", "y", ">">>
      [] OTHER -> <<"a">>       \* a keyword or a name: its first byte is a letter

DigitOf(c) ==
    CASE c = "0" -> 0 [] c = "1" -> 1 [] c = "2" -> 2 [] c = "3" -> 3
      [] c = "4" -> 4 [] c = "5" -> 5 [] c = "6" -> 6 [] c = "7" -> 7
      [] c = "8" -> 8 [] c = "9" -> 9 [] OTHER -> -1

I32Max == 2147483647
I32Min == -I32Max - 1

\* the digit loop of from_str_radix for a non-negative i32:
\* acc.checked_mul(10) then checked_add(digit); None on a bad digit or overflow
RECURSIVE AccPos(_, _)
AccPos(ds, acc) ==
    IF Len(ds) = 0 THEN Some(acc)
    ELSE LET d == DigitOf(ds[1]) IN
         IF d < 0 THEN None
         ELSE IF acc > (I32Max - d) \div 10 THEN None
         ELSE AccPos(Tail(ds), acc * 10 + d)

\* the digit loop for a negative i32: checked_mul(10) then checked_sub(digit)
RECURSIVE AccNeg(_, _)
AccNeg(ds, acc) ==
    IF Len(ds) = 0 THEN Some(acc)
    ELSE LET d == DigitOf(ds[1]) IN
         IF d < 0 THEN None
         ELSE IF acc < -((I32Max - d + 1) \div 10) THEN None
         ELSE AccNeg(Tail(ds), acc * 10 - d)

\* s.parse::<i32>().ok()
ParseI32(t) ==
    LET cs == Chars(t) IN
    IF Len(cs) = 0 THEN None
    ELSE IF Len(cs) = 1 /\ cs[1] \in {"+", "-"} THEN None
    ELSE IF cs[1] = "+" THEN AccPos(Tail(cs), 0)
    ELSE IF cs[1] = "-" THEN AccNeg(Tail(cs), 0)
    ELSE AccPos(cs, 0)

\* The value of a u64 is kept as its decimal digits without leading zeros
\* (<<>> is zero), since it exceeds the integers TLC computes with.
U64MaxDigits == <<1, 8, 4, 4, 6, 7, 4, 4, 0, 7, 3, 7, 0, 9, 5, 5, 1, 6, 1, 5>>

RECURSIVE LexLeq(_, _)
LexLeq(a, b) ==
    IF Len(a) = 0 THEN TRUE
    ELSE IF a[1] # b[1] THEN a[1] < b[1]
    ELSE LexLeq(Tail(a), Tail(b))

FitsU64(ds) ==
    \/ Len(ds) < Len(U64MaxDigits)
    \/ Len(ds) = Len(U64MaxDigits) /\ LexLeq(ds, U64MaxDigits)

RECURSIVE AccU64(_, _)
AccU64(cs, acc) ==
    IF Len(cs) = 0 THEN Some(acc)
    ELSE LET d == DigitOf(cs[1])
             a == IF acc = <<>> /\ d = 0 THEN <<>> ELSE Append(acc, d) IN
         IF d < 0 THEN None
         ELSE IF ~FitsU64(a) THEN None
         ELSE AccU64(Tail(cs), a)

\* s.parse::<u64>().ok(): a "+" sign is accepted, a "-" is an invalid digit
ParseU64(t) ==
    LET cs == Chars(t) IN
    IF Len(cs) = 0 THEN None
    ELSE IF Len(cs) = 1 /\ cs[1] \in {"+", "-"} THEN None
    ELSE IF cs[1] = "+" THEN AccU64(Tail(cs), <<>>)
    ELSE AccU64(cs, <<>>)

\* s.parse::<bool>().ok(): exactly "true" or "false"
ParseBool(t) ==
    IF t = "true" THEN Some(TRUE)
    ELSE IF t = "false" THEN Some(FALSE)
    ELSE None

\* `?` on a ParseIntError: the From<ParseIntError> conversion of crate::error
FromParseIntError == IllegalSyntax

(***************************************************************************)
(* EngineCommand and its parameter types.                                  *)
(***************************************************************************)
Resign == [tag |-> "Resign"]
Win == [tag |-> "Win"]
MakeMove(m, ponder) == [tag |-> "MakeMove", move |-> m, ponder |-> ponder]
NoMate == [tag |-> "NoMate"]
Timeout == [tag |-> "Timeout"]
Mate(moves) == [tag |-> "Mate", moves |-> moves]
BestMove(p) == [tag |-> "BestMove", params |-> p]
Checkmate(p) == [tag |-> "Checkmate", params |-> p]
Id(field, text) == [tag |-> "Id", field |-> field, text |-> text]
Info(es) == [tag |-> "Info", entries |-> es]
Option(name, kind) == [tag |-> "Option", name |-> name, value |-> kind]
ReadyOk == [tag |-> "ReadyOk"]
UsiOk == [tag |-> "UsiOk"]
Unknown == [tag |-> "Unknown"]

(***************************************************************************)
(* parse: the dispatch on the first token.                                 *)
(***************************************************************************)
\* the `match command`: the sub-parser a keyword selects, "done" for the
\* arms that return at once
SubParserLower(command) ==
    CASE command \in {"bestmove", "Bestmove", "BESTMOVE"} -> "parse_bestmove"
      [] command = "checkmate" -> "parse_checkmate"
      [] command = "id" -> "parse_id"
      [] command \in {"info", "Info"} -> "parse_info"
      [] command = "option" -> "parse_option"
      [] OTHER -> "done"

SubParser(command) ==
    CASE command = "bestmove" -> "parse_bestmove"
      [] command = "checkmate" -> "parse_checkmate"
      [] command = "id" -> "parse_id"
      [] command = "info" -> "parse_info"
      [] command = "option" -> "parse_option"
      [] OTHER -> "done"

\* the value of the arms that call no sub-parser
Immediate(command) ==
    CASE command = "readyok" -> Ok(ReadyOk)
      [] command = "usiok" -> Ok(UsiOk)
      [] OTHER -> Ok(Unknown)

parse ==
    /\ pc = "parse"
    /\ LET command == Next_(tokens, pos) IN
       IF ~IsSome(command)
       THEN /\ result' = Err(IllegalSyntax)
            /\ pc' = "done"
            /\ pos' = pos
       ELSE /\ pc' = SubParser(Unwrap(command))
            /\ result' = IF SubParser(Unwrap(command)) = "done"
                         THEN Immediate(Unwrap(command))
                         ELSE Pending
            /\ pos' = pos + 1
    /\ UNCHANGED <<tokens, entries, opt_name, default, min, max, vars_>>

(***************************************************************************)
(* parse_bestmove                                                          *)
(***************************************************************************)
\* the match on (iter.next(), iter.next(), iter.next())
BestmoveResult(toks, p) ==
    LET a == Next_(toks, p)
        b == Next_(toks, p + 1)
        c == Next_(toks, p + 2) IN
    IF a = Some("resign") /\ b = None /\ c = None THEN Ok(BestMove(Resign))
    ELSE IF a = Some("win") /\ b = None /\ c = None THEN Ok(BestMove(Win))
    ELSE IF IsSome(a) /\ b = None /\ c = None
         THEN Ok(BestMove(MakeMove(Unwrap(a), None)))
    ELSE IF IsSome(a) /\ b = Some("ponder") /\ IsSome(c)
         THEN Ok(BestMove(MakeMove(Unwrap(a), Some(Unwrap(c)))))
    ELSE Err(IllegalSyntax)

parse_bestmove ==
    /\ pc = "parse_bestmove"
    /\ result' = BestmoveResult(tokens, pos)
    /\ pos' = IF pos + 3 <= Len(tokens) + 1 THEN pos + 3 ELSE Len(tokens) + 1
    /\ pc' = "done"
    /\ UNCHANGED <<tokens, entries, opt_name, default, min, max, vars_>>

(***************************************************************************)
(* parse_checkmate                                                         *)
(***************************************************************************)
\* a variant that starts the move list after the first token
CheckmateResultTail(toks, p) ==
    LET s == Next_(toks, p) IN
    IF s = Some("notimplemented") THEN Ok(Checkmate(NoMate))
    ELSE IF s = Some("timeout") THEN Ok(Checkmate(Timeout))
    ELSE IF s = Some("nomate") THEN Ok(Checkmate(NoMate))
    ELSE IF IsSome(s) THEN Ok(Checkmate(Mate(Rest(toks, p + 1))))
    ELSE Err(IllegalSyntax)

\* the match on iter.next(); the last Some arm drains the iterator into moves
CheckmateResult(toks, p) ==
    LET s == Next_(toks, p) IN
    IF s = Some("notimplemented") THEN Ok(Checkmate(NoMate))
    ELSE IF s = Some("timeout") THEN Ok(Checkmate(Timeout))
    ELSE IF s = Some("nomate") THEN Ok(Checkmate(NoMate))
    ELSE IF IsSome(s) THEN Ok(Checkmate(Mate(<<Unwrap(s)>> \o Rest(toks, p + 1))))
    ELSE Err(IllegalSyntax)

parse_checkmate ==
    /\ pc = "parse_checkmate"
    /\ result' = CheckmateResult(tokens, pos)
    /\ pos' = IF Next_(tokens, pos) \in {None, Some("notimplemented"),
                                         Some("timeout"), Some("nomate")}
              THEN (IF pos <= Len(tokens) THEN pos + 1 ELSE pos)
              ELSE Len(tokens) + 1
    /\ pc' = "done"
    /\ UNCHANGED <<tokens, entries, opt_name, default, min, max, vars_>>

(***************************************************************************)
(* parse_id                                                                *)
(***************************************************************************)
IdResult(toks, p) ==
    LET s == Next_(toks, p) IN
    IF s = Some("name") THEN Ok(Id("Name", Join(Rest(toks, p + 1))))
    ELSE IF s = Some("author") THEN Ok(Id("Author", Join(Rest(toks, p + 1))))
    ELSE Err(IllegalSyntax)

parse_id ==
    /\ pc = "parse_id"
    /\ result' = IdResult(tokens, pos)
    /\ pos' = IF Next_(tokens, pos) \in {Some("name"), Some("author")}
              THEN Len(tokens) + 1
              ELSE (IF pos <= Len(tokens) THEN pos + 1 ELSE pos)
    /\ pc' = "done"
    /\ UNCHANGED <<tokens, entries, opt_name, default, min, max, vars_>>

(***************************************************************************)
(* parse_info: InfoParams and one iteration of the `while let` loop.       *)
(* An iteration yields [st, entry, next]: st is "push" (an entry is        *)
(* pushed and the loop goes on), "skip" (nothing is pushed and the loop    *)
(* goes on), "break" (an entry is pushed and the loop ends) or "err" (the  *)
(* function returns err); next is the cursor after the iteration.          *)
(***************************************************************************)
Depth(d, sd) == [kind |-> "Depth", depth |-> d, sel_depth |-> sd]
Time(ms) == [kind |-> "Time", ms |-> ms]
MultiPv(n) == [kind |-> "MultiPv", value |-> n]
Nodes(n) == [kind |-> "Nodes", value |-> n]
HashFull(n) == [kind |-> "HashFull", value |-> n]
Nps(n) == [kind |-> "Nps", value |-> n]
CurrMove(m) == [kind |-> "CurrMove", move |-> m]
Pv(pvs) == [kind |-> "Pv", pvs |-> pvs]
Text(t) == [kind |-> "Text", text |-> t]
Score(v, k) == [kind |-> "Score", value |-> v, score_kind |-> k]

Push(e, n) == [st |-> "push", entry |-> e, next |-> n]
Skip(n) == [st |-> "skip", next |-> n]
Break(e, n) == [st |-> "break", entry |-> e, next |-> n]
Fail(e, n) == [st |-> "err", err |-> e, next |-> n]

\* cursor after an iter.next() at p
Adv(toks, p) == IF p <= Len(toks) THEN p + 1 ELSE p

\* the entry the arm of keyword kw pushes for the value n
I32Entry(kw, n) ==
    CASE kw = "multipv" -> MultiPv(n)
      [] kw = "nodes" -> Nodes(n)
      [] kw = "hashfull" -> HashFull(n)
      [] kw = "nps" -> Nps(n)

\* iter.next().and_then(|s| s.parse().ok()).ok_or(IllegalSyntax)? for the i32
\* argument at p of keyword kw, then the push of its entry
I32Item(toks, p, kw) ==
    LET a == Next_(toks, p)
        n == IF IsSome(a) THEN ParseI32(Unwrap(a)) ELSE None IN
    IF IsSome(n) THEN Push(I32Entry(kw, Unwrap(n)), p + 1)
    ELSE Fail(IllegalSyntax, Adv(toks, p))

\* "depth": the argument at p, then the peek for "seldepth"
DepthItem(toks, p) ==
    LET a == Next_(toks, p)
        d == IF IsSome(a) THEN ParseI32(Unwrap(a)) ELSE None
        b == Next_(toks, p + 2)
        sd == IF IsSome(b) THEN ParseI32(Unwrap(b)) ELSE None IN
    IF ~IsSome(d) THEN Fail(IllegalSyntax, Adv(toks, p))
    ELSE IF Next_(toks, p + 1) = Some("seldepth")
         THEN IF IsSome(sd) THEN Push(Depth(Unwrap(d), Some(Unwrap(sd))), p + 3)
              ELSE Fail(IllegalSyntax, Adv(toks, p + 2))
    ELSE Push(Depth(Unwrap(d), None), p + 1)

\* "time": a u64 argument
TimeItem(toks, p) ==
    LET a == Next_(toks, p)
        n == IF IsSome(a) THEN ParseU64(Unwrap(a)) ELSE None IN
    IF IsSome(n) THEN Push(Time(Unwrap(n)), p + 1)
    ELSE Fail(IllegalSyntax, Adv(toks, p))

\* a variant of "pv" that takes one move and lets the loop go on
PvItemOne(toks, p) ==
    IF p <= Len(toks) THEN Push(Pv(<<toks[p]>>), p + 1) ELSE Push(Pv(<<>>), p)

\* "pv": the rest of the iterator is collected, then break
PvItem(toks, p) == Break(Pv(Rest(toks, p)), Len(toks) + 1)

\* "string": the rest of the iterator is joined, then break
StringItem(toks, p) == Break(Text(Join(Rest(toks, p))), Len(toks) + 1)

\* "currmove": one raw token
CurrMoveItem(toks, p) ==
    IF p <= Len(toks) THEN Push(CurrMove(toks[p]), p + 1)
    ELSE Fail(IllegalSyntax, p)

\* the peek after `cp <n>` / `mate <ply>` with the cursor at p: nothing is
\* pushed when the peek finds no token
BoundItem(toks, p, v, lower, upper, exact) ==
    LET peek_kind == Next_(toks, p) IN
    IF ~IsSome(peek_kind) THEN Skip(p)
    ELSE IF Unwrap(peek_kind) = "lowerbound" THEN Push(Score(v, lower), p + 1)
    ELSE IF Unwrap(peek_kind) = "upperbound" THEN Push(Score(v, upper), p + 1)
    ELSE Push(Score(v, exact), p)

\* a variant of the sign arms that looks ahead for a bound like the others
MateSignItemBound(toks, p, v) ==
    IF Next_(toks, p) \in {Some("lowerbound"), Some("upperbound")}
    THEN Push(Score(v, "MateSignOnly"), p + 1)
    ELSE Push(Score(v, "MateSignOnly"), p)

\* the arms (Some("mate"), Some("+")) and (Some("mate"), Some("-")), with the
\* cursor at p after the sign
MateSignItem(toks, p, v) == Push(Score(v, "MateSignOnly"), p)

\* "score": the match on (iter.next(), iter.next()), the cursor at p
ScoreItem(toks, p) ==
    LET a == Next_(toks, p)
        b == Next_(toks, p + 1)
        n == IF IsSome(b) THEN ParseI32(Unwrap(b)) ELSE None IN
    IF a = Some("cp") /\ IsSome(b)
    THEN IF ~IsSome(n) THEN Fail(FromParseIntError, p + 2)
         ELSE BoundItem(toks, p + 2, Unwrap(n), "CpLowerbound", "CpUpperbound", "CpExact")
    ELSE IF a = Some("mate") /\ b = Some("+") THEN MateSignItem(toks, p + 2, 1)
    ELSE IF a = Some("mate") /\ b = Some("-") THEN MateSignItem(toks, p + 2, -1)
    ELSE IF a = Some("mate") /\ IsSome(b)
    THEN IF ~IsSome(n) THEN Fail(FromParseIntError, p + 2)
         ELSE BoundItem(toks, p + 2, Unwrap(n), "MateLowerbound", "MateUpperbound", "MateExact")
    ELSE Fail(IllegalSyntax, Adv(toks, Adv(toks, p)))

\* the `match kind` of one iteration, kind = toks[p]
InfoItem(toks, p) ==
    LET kind == toks[p] IN
    CASE kind = "depth" -> DepthItem(toks, p + 1)
      [] kind = "time" -> TimeItem(toks, p + 1)
      [] kind = "multipv" -> I32Item(toks, p + 1, kind)
      [] kind = "nodes" -> I32Item(toks, p + 1, kind)
      [] kind = "pv" -> PvItem(toks, p + 1)
      [] kind = "score" -> ScoreItem(toks, p + 1)
      [] kind = "currmove" -> CurrMoveItem(toks, p + 1)
      [] kind = "hashfull" -> I32Item(toks, p + 1, kind)
      [] kind = "nps" -> I32Item(toks, p + 1, kind)
      [] kind = "string" -> StringItem(toks, p + 1)
      [] OTHER -> Fail(IllegalSyntax, p + 1)

\* one iteration of `while let Some(kind) = iter.next()`
InfoStep ==
    /\ pc = "parse_info"
    /\ pos <= Len(tokens)
    /\ LET r == InfoItem(tokens, pos) IN
       /\ pos' = r.next
       /\ entries' = IF r.st \in {"push", "break"} THEN Append(entries, r.entry)
                     ELSE entries
       /\ pc' = IF r.st \in {"push", "skip"} THEN "parse_info" ELSE "done"
       /\ result' = CASE r.st = "err" -> Err(r.err)
                      [] r.st = "break" -> Ok(Info(Append(entries, r.entry)))
                      [] OTHER -> Pending
    /\ UNCHANGED <<tokens, opt_name, default, min, max, vars_>>

\* iter.next() is None: the loop ends and Ok(Info(entries)) is returned
InfoEnd ==
    /\ pc = "parse_info"
    /\ pos > Len(tokens)
    /\ result' = Ok(Info(entries))
    /\ pc' = "done"
    /\ UNCHANGED <<tokens, pos, entries, opt_name, default, min, max, vars_>>

(***************************************************************************)
(* parse_option                                                            *)
(***************************************************************************)
Check(d) == [kind |-> "Check", default |-> d]
Spin(d, mn, mx) == [kind |-> "Spin", default |-> d, min |-> mn, max |-> mx]
Combo(d, vs) == [kind |-> "Combo", default |-> d, vars |-> vs]
Button(d) == [kind |-> "Button", default |-> d]
String(d) == [kind |-> "String", default |-> d]
Filename(d) == [kind |-> "Filename", default |-> d]

\* a variant that keeps the token as it is
parse_default_raw(s) == s

parse_default(s) == IF s = "<empty>" THEN "" ELSE s

\* Option::map(parse_default)
MapDefault(o) == IF IsSome(o) THEN Some(parse_default(Unwrap(o))) ELSE None

\* iter.find(|v| *v != "default") from cursor p: the first token that is not
\* "default", None when every remaining token is
RECURSIVE FindNotDefault(_, _)
FindNotDefault(toks, p) ==
    IF p > Len(toks) THEN None
    ELSE IF toks[p] # "default" THEN Some(toks[p])
    ELSE FindNotDefault(toks, p + 1)

\* the cursor after that find
RECURSIVE FindNotDefaultEnd(_, _)
FindNotDefaultEnd(toks, p) ==
    IF p > Len(toks) THEN p
    ELSE IF toks[p] # "default" THEN p + 1
    ELSE FindNotDefaultEnd(toks, p + 1)

\* the header match on (iter.next(), iter.next(), iter.next()) at cursor p
HeaderOk(toks, p) ==
    /\ Next_(toks, p) = Some("name")
    /\ IsSome(Next_(toks, p + 1))
    /\ Next_(toks, p + 2) = Some("type")

\* the arms of `match self.iter.next()` that finish in one call; t is the type
\* keyword and p the cursor after it
OneShotKind(toks, p, t) ==
    LET found == FindNotDefault(toks, p) IN
    CASE t = "check" -> Check(IF IsSome(found) THEN ParseBool(Unwrap(found)) ELSE None)
      [] t = "button" -> Button(MapDefault(found))
      [] t = "string" -> String(MapDefault(found))
      [] t = "filename" -> Filename(MapDefault(found))

parse_option ==
    /\ pc = "parse_option"
    /\ UNCHANGED <<tokens, entries>>
    /\ default' = None
    /\ min' = None
    /\ max' = None
    /\ vars_' = <<>>
    /\ IF ~HeaderOk(tokens, pos)
       THEN /\ result' = Err(IllegalSyntax)
            /\ pc' = "done"
            /\ pos' = Adv(tokens, Adv(tokens, Adv(tokens, pos)))
            /\ opt_name' = opt_name
       ELSE LET t == Next_(tokens, pos + 3) IN
            /\ opt_name' = tokens[pos + 1]
            /\ IF t \in {Some("check"), Some("button"), Some("string"), Some("filename")}
               THEN /\ result' = Ok(Option(tokens[pos + 1],
                                           OneShotKind(tokens, pos + 4, Unwrap(t))))
                    /\ pc' = "done"
                    /\ pos' = FindNotDefaultEnd(tokens, pos + 4)
               ELSE IF t \in {Some("spin"), Some("combo")}
               THEN /\ result' = Pending
                    /\ pc' = Unwrap(t)
                    /\ pos' = pos + 4
               ELSE /\ result' = Err(IllegalSyntax)
                    /\ pc' = "done"
                    /\ pos' = Adv(tokens, pos + 3)

\* iter.next().and_then(|s| s.parse().ok()) at cursor p
SpinArg(toks, p) == IF p <= Len(toks) THEN ParseI32(toks[p]) ELSE None

\* a variant whose `_` arm also takes the token after the one it skips
SpinItemSkipTwo(toks, p, d, mn, mx) ==
    LET kind == toks[p] IN
    CASE kind = "default" -> [default |-> SpinArg(toks, p + 1), min |-> mn, max |-> mx,
                              next |-> Adv(toks, p + 1)]
      [] kind = "min" -> [default |-> d, min |-> SpinArg(toks, p + 1), max |-> mx,
                          next |-> Adv(toks, p + 1)]
      [] kind = "max" -> [default |-> d, min |-> mn, max |-> SpinArg(toks, p + 1),
                          next |-> Adv(toks, p + 1)]
      [] OTHER -> [default |-> d, min |-> mn, max |-> mx, next |-> Adv(toks, p + 1)]

\* the `match kind` of one iteration of the spin loop, kind = toks[p]
SpinItem(toks, p, d, mn, mx) ==
    LET kind == toks[p] IN
    CASE kind = "default" -> [default |-> SpinArg(toks, p + 1), min |-> mn, max |-> mx,
                              next |-> Adv(toks, p + 1)]
      [] kind = "min" -> [default |-> d, min |-> SpinArg(toks, p + 1), max |-> mx,
                          next |-> Adv(toks, p + 1)]
      [] kind = "max" -> [default |-> d, min |-> mn, max |-> SpinArg(toks, p + 1),
                          next |-> Adv(toks, p + 1)]
      [] OTHER -> [default |-> d, min |-> mn, max |-> mx, next |-> p + 1]

SpinStep ==
    /\ pc = "spin"
    /\ pos <= Len(tokens)
    /\ LET r == SpinItem(tokens, pos, default, min, max) IN
       /\ default' = r.default
       /\ min' = r.min
       /\ max' = r.max
       /\ pos' = r.next
    /\ UNCHANGED <<tokens, pc, result, entries, opt_name, vars_>>

SpinEnd ==
    /\ pc = "spin"
    /\ pos > Len(tokens)
    /\ result' = Ok(Option(opt_name, Spin(default, min, max)))
    /\ pc' = "done"
    /\ UNCHANGED <<tokens, pos, entries, opt_name, default, min, max, vars_>>

\* the `match kind` of one iteration of the combo loop, kind = toks[p]
ComboItem(toks, p, d, vs) ==
    LET kind == toks[p] IN
    CASE kind = "default" -> [default |-> MapDefault(Next_(toks, p + 1)), vars |-> vs,
                              next |-> Adv(toks, p + 1), brk |-> FALSE]
      [] kind = "var" -> [default |-> d, vars |-> vs \o Rest(toks, p + 1),
                          next |-> Len(toks) + 1, brk |-> TRUE]
      [] OTHER -> [default |-> d, vars |-> vs, next |-> p + 1, brk |-> FALSE]

ComboStep ==
    /\ pc = "combo"
    /\ pos <= Len(tokens)
    /\ LET r == ComboItem(tokens, pos, default, vars_) IN
       /\ default' = r.default
       /\ vars_' = r.vars
       /\ pos' = r.next
       /\ pc' = IF r.brk THEN "done" ELSE "combo"
       /\ result' = IF r.brk THEN Ok(Option(opt_name, Combo(r.default, r.vars)))
                    ELSE Pending
    /\ UNCHANGED <<tokens, entries, opt_name, min, max>>

ComboEnd ==
    /\ pc = "combo"
    /\ pos > Len(tokens)
    /\ result' = Ok(Option(opt_name, Combo(default, vars_)))
    /\ pc' = "done"
    /\ UNCHANGED <<tokens, pos, entries, opt_name, default, min, max, vars_>>

(***************************************************************************)
(* The lines parsed.  A parser is built by EngineCommandParser::new(cmd)   *)
(* and consumed by parse(); each specification draws the line from the     *)
(* tokens of one part of the grammar.                                      *)
(***************************************************************************)
SeqsUpTo(S, n) == UNION {[1..k -> S] : k \in 0..n}

\* EngineCommandParser::new over the line whose tokens are toks
New(toks) ==
    /\ tokens = toks
    /\ pos = 1
    /\ pc = "parse"
    /\ result = Pending
    /\ entries = <<>>
    /\ opt_name = ""
    /\ default = None
    /\ min = None
    /\ max = None
    /\ vars_ = <<>>

CmdFirst == {"bestmove", "checkmate", "id", "readyok", "usiok",
             "Info", "BESTMOVE", "go", "USIOK"}
CmdRest == {"resign", "win", "ponder", "7g7f", "8c8d",
            "notimplemented", "nomate", "timeout", "name"}

Init ==
    \E first \in CmdFirst \cup {""}, rest \in SeqsUpTo(CmdRest, MaxCmdLen) :
        New(IF first = "" THEN <<>> ELSE <<first>> \o rest)

Next == parse \/ parse_bestmove \/ parse_checkmate \/ parse_id

Spec == Init /\ [][Next]_vars

InfoTokens == {"depth", "seldepth", "time", "multipv", "nodes", "hashfull", "nps",
               "currmove", "pv", "string", "score", "cp", "12", "-5", "1x"}

InitInfo == \E body \in SeqsUpTo(InfoTokens, MaxInfoLen) : New(<<"info">> \o body)

NextInfo == parse \/ InfoStep \/ InfoEnd

SpecInfo == InitInfo /\ [][NextInfo]_vars

ScoreTokens == {"score", "cp", "mate", "+", "-", "lowerbound", "upperbound",
                "34", "-5", "2147483648", "pv"}

InitScore == \E body \in SeqsUpTo(ScoreTokens, MaxScoreLen) : New(<<"info">> \o body)

SpecScore == InitScore /\ [][NextInfo]_vars

SpinTokens == {"default", "min", "max", "256", "-5", "1x", "var"}

InitSpin ==
    \E body \in SeqsUpTo(SpinTokens, MaxSpinLen) :
        New(<<"option", "name", "USI_Hash", "type", "spin">> \o body)

NextSpin == parse \/ parse_option \/ SpinStep \/ SpinEnd

SpecSpin == InitSpin /\ [][NextSpin]_vars

OptTypes == {"check", "button", "string", "filename", "combo", "slider"}
OptHeaders == {<<"name", "Opt", "type", t>> : t \in OptTypes}
                  \cup {<<"name", "Opt">>, <<"Opt", "type", "string">>}
OptTokens == {"default", "var", "<empty>", "true", "false", "book.db"}

InitOption ==
    \E hdr \in OptHeaders, body \in SeqsUpTo(OptTokens, MaxOptLen) :
        New(<<"option">> \o hdr \o body)

NextOption == parse \/ parse_option \/ ComboStep \/ ComboEnd

SpecOption == InitOption /\ [][NextOption]_vars

(***************************************************************************)
(* Properties.                                                             *)
(***************************************************************************)
Done == pc = "done"
Commands == {"bestmove", "checkmate", "id", "info", "option", "readyok", "usiok"}

\* C6: a line with no tokens is answered with the failure IllegalSyntax; a
\* line whose first token is not one of the seven command keywords (compared
\* case-sensitively) is answered with Unknown as soon as parse has run, and
\* never with a failure, whatever tokens follow.
C6_EmptyIsErrorUnknownIsOk ==
    pc # "parse" =>
        /\ Len(tokens) = 0 => Done /\ result = Err(IllegalSyntax)
        /\ (Len(tokens) > 0 /\ tokens[1] \notin Commands) =>
               Done /\ result = Ok(Unknown)

\* C6 witness: a line that starts with a keyword in the wrong case and goes
\* on with tokens of the bestmove grammar has been answered with Unknown
C6_Witness ==
    /\ Done
    /\ Len(tokens) >= 3
    /\ tokens[1] = "BESTMOVE"
    /\ tokens[2] = "7g7f"
    /\ result = Ok(Unknown)

\* the bestmove grammar: resign | win | <move> | <move> ponder <pm>, nothing else
BestmoveGrammar(rest) ==
    IF rest = <<"resign">> THEN Ok(BestMove(Resign))
    ELSE IF rest = <<"win">> THEN Ok(BestMove(Win))
    ELSE IF Len(rest) = 1 THEN Ok(BestMove(MakeMove(rest[1], None)))
    ELSE IF Len(rest) = 3 /\ rest[2] = "ponder"
         THEN Ok(BestMove(MakeMove(rest[1], Some(rest[3]))))
    ELSE Err(IllegalSyntax)

\* C2: the tokens after `bestmove` are answered by the grammar resign | win |
\* <move> | <move> ponder <pm>; every other sequence, a trailing token beyond
\* those included, is answered with IllegalSyntax.
C2_BestmoveGrammar ==
    (Done /\ Len(tokens) > 0 /\ tokens[1] = "bestmove") =>
        result = BestmoveGrammar(Rest(tokens, 2))

\* the checkmate result as the first remaining token decides it
CheckmateGrammar(rest) ==
    IF Len(rest) = 0 THEN Err(IllegalSyntax)
    ELSE IF rest[1] \in {"notimplemented", "nomate"} THEN Ok(Checkmate(NoMate))
    ELSE IF rest[1] = "timeout" THEN Ok(Checkmate(Timeout))
    ELSE Ok(Checkmate(Mate(rest)))

\* C8: the checkmate result is decided by the first remaining token alone:
\* notimplemented and nomate give the same NoMate, timeout gives Timeout, any
\* other token gives Mate of all the remaining tokens in their order (at
\* least one), and no remaining token gives IllegalSyntax.
C8_CheckmateByFirstToken ==
    (Done /\ Len(tokens) > 0 /\ tokens[1] = "checkmate") =>
        /\ result = CheckmateGrammar(Rest(tokens, 2))
        /\ (result.tag = "Ok" /\ result.cmd.params.tag = "Mate") =>
               Len(result.cmd.params.moves) >= 1

\* C8 witness: a mate sequence of three moves, the later ones spelled like
\* the keywords of the other arms
C8_Witness ==
    /\ Done
    /\ tokens = <<"checkmate", "7g7f", "nomate", "timeout">>
    /\ result = Ok(Checkmate(Mate(<<"7g7f", "nomate", "timeout">>)))

\* the entry kind an info keyword produces
EntryKindOf(kw) ==
    CASE kw = "depth" -> "Depth" [] kw = "time" -> "Time"
      [] kw = "multipv" -> "MultiPv" [] kw = "nodes" -> "Nodes"
      [] kw = "pv" -> "Pv" [] kw = "score" -> "Score"
      [] kw = "currmove" -> "CurrMove" [] kw = "hashfull" -> "HashFull"
      [] kw = "nps" -> "Nps" [] kw = "string" -> "Text"
      [] OTHER -> "none"

\* es[i..] can be matched, in order, with keywords among toks[j..]
RECURSIVE InLineOrder(_, _, _, _)
InLineOrder(es, i, toks, j) ==
    IF i > Len(es) THEN TRUE
    ELSE IF j > Len(toks) THEN FALSE
    ELSE IF EntryKindOf(toks[j]) = es[i].kind THEN InLineOrder(es, i + 1, toks, j + 1)
    ELSE InLineOrder(es, i, toks, j + 1)

\* the entries after an iteration are the entries before it, or those plus one
\* entry of the kind of the keyword the iteration read
GrowsByKeyword(before, after, kw) ==
    \/ after = before
    \/ /\ Len(after) = Len(before) + 1
       /\ SubSeq(after, 1, Len(before)) = before
       /\ after[Len(after)].kind = EntryKindOf(kw)

\* an iteration that reads pv or string ends the parse successfully with its
\* entry last, holding every token after the keyword
TerminalStep ==
    /\ pc' = "done"
    /\ Len(entries') = Len(entries) + 1
    /\ result' = Ok(Info(entries'))
    /\ LET last == entries'[Len(entries')] IN
       IF tokens[pos] = "pv" THEN last = Pv(Rest(tokens, pos + 1))
       ELSE last = Text(Join(Rest(tokens, pos + 1)))

\* C3: the entries of an info result are in the order of their keywords in
\* the line: every iteration reads its keyword further along the line than
\* the last and appends at most one entry, of that keyword's kind, and the
\* result holds exactly the entries accumulated; an iteration that reads pv or
\* string as its keyword ends the parse successfully with that entry last,
\* all later tokens in its payload.
C3_OrderAndTerminal ==
    /\ [](Done /\ result.tag = "Ok" /\ result.cmd.tag = "Info" =>
              /\ result.cmd.entries = entries
              /\ InLineOrder(entries, 1, tokens, 2))
    /\ [][(pc = "parse_info" /\ pos <= Len(tokens)) =>
              /\ pos' > pos
              /\ GrowsByKeyword(entries, entries', tokens[pos])
              /\ tokens[pos] \in {"pv", "string"} => TerminalStep]_vars

\* C3 witness: two entries in line order, the pv entry last with keyword-like
\* tokens in its payload
C3_Witness ==
    /\ Done
    /\ tokens = <<"info", "nodes", "12", "pv", "depth">>
    /\ result = Ok(Info(<<Nodes(12), Pv(<<"depth">>)>>))

Bounds == {"lowerbound", "upperbound"}
Signs == {"+", "-"}

\* C9: every MateSignOnly score has value 1 or -1; an iteration that reads
\* `score mate +` (`-`) appends Score{1 (-1), MateSignOnly} and leaves the
\* cursor right after the sign; a bound token read as an item keyword fails
\* the parse, so a line whose first item is `score mate <sign> <bound>` fails
\* with IllegalSyntax.
C9_MateSignOnly ==
    /\ [](\A i \in 1..Len(entries) :
              (entries[i].kind = "Score" /\ entries[i].score_kind = "MateSignOnly")
                  => entries[i].value \in {1, -1})
    /\ []((Done /\ Len(tokens) >= 5 /\ tokens[2] = "score" /\ tokens[3] = "mate"
              /\ tokens[4] \in Signs /\ tokens[5] \in Bounds)
             => result = Err(IllegalSyntax))
    /\ [][(pc = "parse_info" /\ pos + 2 <= Len(tokens) /\ tokens[pos] = "score"
              /\ tokens[pos + 1] = "mate" /\ tokens[pos + 2] \in Signs) =>
              /\ entries' = Append(entries,
                     Score(IF tokens[pos + 2] = "+" THEN 1 ELSE -1, "MateSignOnly"))
              /\ pos' = pos + 3
              /\ pc' = "parse_info"]_vars
    /\ [][(pc = "parse_info" /\ pos <= Len(tokens) /\ tokens[pos] \in Bounds) =>
              (pc' = "done" /\ result' = Err(IllegalSyntax))]_vars

\* C9 witness: `score mate - upperbound` has pushed the sign-only score and
\* then failed on the bound token
C9_Witness ==
    /\ Done
    /\ tokens = <<"info", "score", "mate", "-", "upperbound">>
    /\ entries = <<Score(-1, "MateSignOnly")>>
    /\ result = Err(IllegalSyntax)

\* the score kind the token after `cp <n>` selects
CpKind(following) ==
    IF following = Some("lowerbound") THEN "CpLowerbound"
    ELSE IF following = Some("upperbound") THEN "CpUpperbound"
    ELSE "CpExact"

\* C1: a line whose first item is `score cp <n>` with a valid <n> parses to
\* entries that start with Score{n, kind}: CpExact when no token follows or
\* the following token is no bound, the matching bound kind otherwise; with
\* no token after <n> the result is exactly that one entry.
C1_ScoreCpKind ==
    (Done /\ Len(tokens) >= 4 /\ tokens[2] = "score" /\ tokens[3] = "cp"
          /\ IsSome(ParseI32(tokens[4]))) =>
        /\ result.tag = "Ok" =>
              /\ Len(result.cmd.entries) >= 1
              /\ result.cmd.entries[1] =
                     Score(Unwrap(ParseI32(tokens[4])), CpKind(Next_(tokens, 5)))
        /\ Len(tokens) = 4 =>
              result = Ok(Info(<<Score(Unwrap(ParseI32(tokens[4])), "CpExact")>>))

SpinKeys == {"default", "min", "max"}

\* C5: a token in a numeric argument position that fails the integer
\* conversion makes parse fail with IllegalSyntax: here the argument of the
\* first default / min / max of a spin option.
C5_BadNumberIsError ==
    (Done /\ Len(tokens) >= 7 /\ tokens[5] = "spin" /\ tokens[6] \in SpinKeys
          /\ ~IsSome(ParseI32(tokens[7]))) =>
        result = Err(IllegalSyntax)

\* the index of the first "default" among toks[p..], 0 when there is none
RECURSIVE FirstDefault(_, _)
FirstDefault(toks, p) ==
    IF p > Len(toks) THEN 0
    ELSE IF toks[p] = "default" THEN p
    ELSE FirstDefault(toks, p + 1)

OneShotTypes == {"check", "button", "string", "filename"}
StringDefaultKinds == {"Button", "String", "Filename"}

\* `<empty>` read as the empty string, any other token as itself
Normalized(t) == IF t = "<empty>" THEN "" ELSE t

\* C4: for check, button, string and filename the parse succeeds; when no
\* `default` token occurs after the type keyword the default is unset, and
\* when one does, the token after the first `default` is the default value
\* (a boolean for check, the `<empty>`-normalized token for the others).
C4_ScanForDefault ==
    (Done /\ Len(tokens) >= 5 /\ HeaderOk(tokens, 2) /\ tokens[5] \in OneShotTypes) =>
        LET i == FirstDefault(tokens, 6) IN
        /\ result.tag = "Ok"
        /\ i = 0 => result.cmd.value.default = None
        /\ (i > 0 /\ i < Len(tokens) /\ tokens[5] = "check") =>
               result.cmd.value.default = ParseBool(tokens[i + 1])
        /\ (i > 0 /\ i < Len(tokens) /\ tokens[5] # "check") =>
               result.cmd.value.default = Some(Normalized(tokens[i + 1]))

\* C7: the default of a button, string or filename option is the token taken
\* for it, with `<empty>` read as the empty string and every other token
\* verbatim: it is never the text `<empty>`; in a combo option every
\* `default <token>` sets the default to that token read the same way.
C7_EmptyLiteral ==
    /\ []((Done /\ result.tag = "Ok" /\ result.cmd.tag = "Option"
               /\ result.cmd.value.kind \in StringDefaultKinds \cup {"Combo"})
              => result.cmd.value.default # Some("<empty>"))
    /\ []((Done /\ result.tag = "Ok" /\ result.cmd.tag = "Option"
               /\ result.cmd.value.kind \in StringDefaultKinds) =>
              LET taken == FindNotDefault(tokens, 6) IN
              result.cmd.value.default =
                  IF IsSome(taken) THEN Some(Normalized(Unwrap(taken))) ELSE None)
    /\ [][(pc = "combo" /\ pos < Len(tokens) /\ tokens[pos] = "default") =>
              default' = Some(Normalized(tokens[pos + 1]))]_vars
    /\ [][(pc = "combo" /\ pc' = "done") =>
              result' = Ok(Option(opt_name, Combo(default', vars_')))]_vars

\* C7 witness: a string option whose default token is `<empty>` has the empty
\* string as its default
C7_Witness ==
    /\ Done
    /\ tokens = <<"option", "name", "Opt", "type", "string", "default", "<empty>">>
    /\ result = Ok(Option("Opt", String(Some(""))))

\* the body of a spin option is pairs of a key and a valid integer, and
\* tokens that are no key
SpinPairs(toks) ==
    \A i \in 6..Len(toks) :
        toks[i] \in SpinKeys => (i < Len(toks) /\ IsSome(ParseI32(toks[i + 1])))

\* the value of the last pair given for key k, None when k never occurs
LastPair(toks, k) ==
    LET at == {i \in 6..Len(toks) : toks[i] = k} IN
    IF at = {} THEN None
    ELSE ParseI32(toks[(CHOOSE i \in at : \A j \in at : j <= i) + 1])

\* C10: a spin option whose body is `default|min|max <int32>` pairs with valid
\* integers, in any order and number and with unrecognized tokens between
\* them, always parses; each of default, min and max is the value of the
\* last pair for its key, unset when there is none; and the loop has ended
\* with the tokens exhausted.
C10_SpinLastPairWins ==
    (Done /\ Len(tokens) >= 5 /\ tokens[5] = "spin" /\ HeaderOk(tokens, 2)
          /\ SpinPairs(tokens)) =>
        /\ result = Ok(Option(tokens[3], Spin(LastPair(tokens, "default"),
                                              LastPair(tokens, "min"),
                                              LastPair(tokens, "max"))))
        /\ pos = Len(tokens) + 1

\* C10 witness: an unrecognized token before a pair, and a key given twice
C10_Witness ==
    /\ Done
    /\ tokens = <<"option", "name", "USI_Hash", "type", "spin",
                  "var", "min", "256", "min", "-5">>
    /\ result = Ok(Option("USI_Hash", Spin(None, Some(-5), None)))

====
